---- MODULE Spec2Model ----
(***************************************************************************)
(* NativeDecryptService (the task dispatcher on the control thread) and    *)
(* decryptWorker (the execution worker thread), with the message ports     *)
(* between them.                                                           *)
(***************************************************************************)
EXTENDS Integers, Sequences, FiniteSets, TLC

\* ---- bounds of the model ------------------------------------------------
MaxCalls == 2
MaxWorkers == 2
\* the progress total the native call reports
Total == 1
\* one native call on its own: the totals it may report, and its callbacks
MaxTotal == 3
MaxCallbacks == 4
\* the LRUCache on its own: the capacities it may be constructed with
MaxCapacity == 2
\* the chat store on its own: the length of state.messages, and of one newMessages
MaxMessages == 3
MaxNew == 2

\* ---- program constants --------------------------------------------------
ThrottleMs == 100

Calls == 1..MaxCalls
\* the strings generateId can give (two: calls can collide, and can differ)
Ids == {"a", "b"}
\* msg.id of a message posted without an id
NoId == "undefined"
Workers == 1..MaxWorkers
Null == 0
\* The values Date.now() gives a callback (a wall clock: far above 0, and not
\* bound to increase).
Epoch == 1000
Times == {Epoch, Epoch + ThrottleMs, Epoch + ThrottleMs + 1}

VARIABLES
    worker,       \* NativeDecryptService.worker: Null or the Worker object's number
    dllPath,      \* NativeDecryptService.dllPath: "null" or "path"
    initialized,  \* NativeDecryptService.initialized
    initError,    \* NativeDecryptService.initError: "null" or the stored message
    tasks,        \* NativeDecryptService.tasks: id -> {resolve, onProgress} of a call (NoTask: absent)
    nWorkers,     \* number of Worker objects constructed so far
    nInit,        \* number of times init() went on to look the paths up
    readySeen,    \* the workers whose 'ready' message handleWorkerMessage has logged
    wst,          \* per worker thread: "none", "boot", "ready", "busy", and ended:
                  \* "failed" (at start-up) or "dead" (later)
    active,       \* per worker: native calls entered and not yet returned
    inbox,        \* per worker: messages posted to it and not yet received
    outbox,       \* per worker: messages and events for the control thread, in order
    cur,          \* per worker: the decrypt request being handled, with the callback's state
    nCalls,       \* number of decryptDatabaseAsync calls made
    sentTo,       \* per call: the worker its request was posted to (Null: none)
    ret,          \* per call: the values its promise was resolved with, in order
    sunk,         \* the onProgress invocation of the dispatcher's latest step: the call whose
                  \* sink it was and the request whose progress it got (NoSink: none)
    started,      \* per worker: the requests whose native call was started, in order
    registered,   \* per worker: callbacks given to koffi.register and not to koffi.unregister
    cbs,          \* the onProgress invocations of one native call, in order, each with
                  \* Date.now() and whether it posted a message
    capacity,     \* LRUCache.capacity
    cache,        \* LRUCache.cache: the entries << key, value >> in the Map's insertion order
    messages      \* useChatStore: state.messages

vars == << worker, dllPath, initialized, initError, tasks, nWorkers, nInit, readySeen,
           wst, active, inbox,
           outbox, cur, nCalls, sentTo, ret, sunk, started, registered,
           cbs, capacity, cache, messages >>

svcVars == << worker, dllPath, initialized, initError, nWorkers, nInit >>

\* What the dispatcher and its worker do not touch: the record of one native
\* call's callbacks, the LRUCache, and the chat store.
auxVars == << cbs, capacity, cache, messages >>

\* call: the call whose promise `resolve` settles; sink: whether it gave an onProgress
NoTask == [call |-> Null, sink |-> FALSE]
NoSink == [call |-> Null, of |-> Null, current |-> 0]
NoCur == [id |-> NoId, req |-> Null, lastUpdate |-> 0, n |-> 0]

\* A message or event from a worker thread. type: "ready", "progress", "success",
\* "error" (messages), "errorEvt", "exitEvt" (the Worker object's events).
\* req names the request the worker was handling; the code does not read it.
Msg(type, id, req, current, err, code) ==
    [type |-> type, id |-> id, req |-> req, current |-> current, err |-> err, code |-> code]

\* ---- the dispatcher -----------------------------------------------------

\* const generateId = () => Math.random().toString(36).substring(2, 15):
\* a random string; nothing relates it to the ids in the table.
generateId == Ids

\* isAvailable()
isAvailable == initialized /\ worker # Null

\* The service's fields as one value, for init().
Svc == [worker |-> worker, dllPath |-> dllPath, initialized |-> initialized,
        initError |-> initError, nWorkers |-> nWorkers, nInit |-> nInit]

\* The fields before the constructor's init() call.
Fields0 == [worker |-> Null, dllPath |-> "null", initialized |-> FALSE,
            initError |-> "null", nWorkers |-> 0, nInit |-> 0]

\* new Worker(...) threw: the assignment to this.worker did not happen.
ctorFailed(s) ==
    [s EXCEPT !.dllPath = "path", !.initError = "ctor", !.nInit = s.nInit + 1]

\* init() with the store of the missing-script error left out.
initDropsError(s, dll, script, ctor) ==
    IF s.initialized THEN s
    ELSE IF ~dll THEN [s EXCEPT !.dllPath = "null", !.initError = "nodll",
                                !.nInit = s.nInit + 1]
    ELSE IF ~script THEN [s EXCEPT !.dllPath = "path", !.nInit = s.nInit + 1]
    ELSE IF ~ctor THEN ctorFailed(s)
    ELSE [s EXCEPT !.dllPath = "path", !.worker = s.nWorkers + 1,
                   !.nWorkers = s.nWorkers + 1, !.initialized = TRUE,
                   !.nInit = s.nInit + 1]

\* init(): dll, script: whether findDllPath / findWorkerPath find a file;
\* ctor: whether new Worker(...) returns.
init(s, dll, script, ctor) ==
    IF s.initialized THEN s
    ELSE IF ~dll THEN [s EXCEPT !.dllPath = "null", !.initError = "nodll",
                                !.nInit = s.nInit + 1]
    ELSE IF ~script THEN [s EXCEPT !.dllPath = "path", !.initError = "noscript",
                                   !.nInit = s.nInit + 1]
    ELSE IF ~ctor THEN ctorFailed(s)
    ELSE [s EXCEPT !.dllPath = "path", !.worker = s.nWorkers + 1,
                   !.nWorkers = s.nWorkers + 1, !.initialized = TRUE,
                   !.nInit = s.nInit + 1]

\* The restart guard without its `!this.initError` conjunct.
shouldInitAnyError(s) == s.worker = Null /\ ~s.initialized

\* The guard of the restart attempt in decryptDatabaseAsync.
shouldInit(s) == s.worker = Null /\ ~s.initialized /\ s.initError = "null"

\* this.tasks.set(id, { resolve, onProgress })
tasksSet(t, id, c, sink) == [t EXCEPT ![id] = [call |-> c, sink |-> sink]]

\* A handler that resolves and forgets to delete.
tasksKeep(t, id) == t

\* this.tasks.delete(msg.id)
tasksDelete(t, id) == [t EXCEPT ![id] = NoTask]

\* The worker's thread has ended.
ended(w) == wst[w] \in {"failed", "dead"}

\* worker.postMessage(m): queued for the worker's message handler; a worker
\* thread that has ended receives nothing.
postToWorker(w, m) ==
    inbox' = [inbox EXCEPT ![w] = IF ended(w) THEN @ ELSE Append(@, m)]

Fresh(s0, s1) == s1.nWorkers > s0.nWorkers

\* A Worker object was constructed: its thread starts to run the script.
Spawn(s0, s1) ==
    wst' = IF Fresh(s0, s1) THEN [wst EXCEPT ![s1.nWorkers] = "boot"] ELSE wst

SetSvc(s) ==
    /\ worker' = s.worker
    /\ dllPath' = s.dllPath
    /\ initialized' = s.initialized
    /\ initError' = s.initError
    /\ nWorkers' = s.nWorkers
    /\ nInit' = s.nInit

\* decryptDatabaseAsync(inputPath, outputPath, hexKey, onProgress)
decryptDatabaseAsync(sink, dll, script, ctor, id) ==
    /\ nCalls < MaxCalls
    /\ shouldInit(Svc) => nWorkers < MaxWorkers
    /\ LET c == nCalls + 1
           tried == shouldInit(Svc)
           s == IF tried THEN init(Svc, dll, script, ctor) ELSE Svc
       IN /\ nCalls' = c
          /\ SetSvc(s)
          /\ Spawn(Svc, s)
          /\ IF s.worker = Null
             THEN /\ ret' = [ret EXCEPT ![c] =
                        << [success |-> FALSE,
                            error |-> IF s.initError # "null" THEN s.initError ELSE "notstarted",
                            of |-> Null] >>]
                  /\ UNCHANGED << tasks, inbox, sentTo >>
             ELSE /\ tasks' = tasksSet(tasks, id, c, sink)
                  /\ postToWorker(s.worker, [type |-> "decrypt", id |-> id, req |-> c])
                  /\ sentTo' = [sentTo EXCEPT ![c] = s.worker]
                  /\ UNCHANGED ret
    /\ sunk' = NoSink
    /\ UNCHANGED << readySeen, active, outbox, cur, started, registered, auxVars >>

Submit ==
    \E sink \in BOOLEAN, dll \in BOOLEAN, script \in BOOLEAN, ctor \in BOOLEAN, id \in generateId :
        decryptDatabaseAsync(sink, dll, script, ctor, id)

\* A wrapper that hands every call on.
neverUnavailable == FALSE

\* The wrapper's check: !nativeDecryptService.isAvailable()
unavailable == ~isAvailable

\* WeChatDecryptService.decryptDatabase(inputPath, outputPath, hexKey, onProgress):
\* the public entry. It returns the dispatcher's result as { success, error }.
decryptDatabase(sink, dll, script, ctor, id) ==
    IF unavailable
    THEN /\ nCalls < MaxCalls
         /\ nCalls' = nCalls + 1
         /\ ret' = [ret EXCEPT ![nCalls + 1] =
                       << [success |-> FALSE, error |-> "unavailable", of |-> Null] >>]
         /\ sunk' = NoSink
         /\ UNCHANGED << svcVars, tasks, inbox, sentTo, wst, readySeen, active, outbox, cur,
                         started, registered, auxVars >>
    ELSE decryptDatabaseAsync(sink, dll, script, ctor, id)

Request ==
    \E sink \in BOOLEAN, dll \in BOOLEAN, script \in BOOLEAN, ctor \in BOOLEAN, id \in generateId :
        decryptDatabase(sink, dll, script, ctor, id)

\* handleWorkerMessage(msg)
handleWorkerMessage(w, msg) ==
    LET task == IF msg.id = NoId THEN NoTask ELSE tasks[msg.id]
        c == task.call
    IN /\ readySeen' = IF msg.type = "ready" THEN readySeen \cup {w} ELSE readySeen
       /\ IF msg.type = "ready" \/ task = NoTask
          THEN /\ sunk' = NoSink
               /\ UNCHANGED << tasks, ret >>
          ELSE CASE msg.type = "success" ->
                      /\ ret' = [ret EXCEPT ![c] =
                             Append(@, [success |-> TRUE, error |-> "null", of |-> msg.req])]
                      /\ tasks' = tasksDelete(tasks, msg.id)
                      /\ sunk' = NoSink
                 [] msg.type = "error" ->
                      /\ ret' = [ret EXCEPT ![c] =
                             Append(@, [success |-> FALSE, error |-> msg.err, of |-> msg.req])]
                      /\ tasks' = tasksDelete(tasks, msg.id)
                      /\ sunk' = NoSink
                 [] msg.type = "progress" ->
                      /\ sunk' = IF task.sink
                                 THEN [call |-> c, of |-> msg.req, current |-> msg.current]
                                 ELSE NoSink
                      /\ UNCHANGED << tasks, ret >>
                 [] OTHER -> sunk' = NoSink /\ UNCHANGED << tasks, ret >>

IsMessage(m) == m.type \in {"ready", "progress", "success", "error"}

\* this.worker.on('message', (msg) => this.handleWorkerMessage(msg))
OnMessage(w) ==
    /\ outbox[w] # << >>
    /\ IsMessage(Head(outbox[w]))
    /\ handleWorkerMessage(w, Head(outbox[w]))
    /\ outbox' = [outbox EXCEPT ![w] = Tail(@)]
    /\ UNCHANGED << svcVars, wst, active, inbox, cur, nCalls, sentTo, started, registered,
                    auxVars >>

\* An 'error' handler that drops the handle, for the next call to start a worker.
errorHandlerRestarts(s) == [s EXCEPT !.worker = Null, !.initialized = FALSE]

\* The fields after the 'error' handler ran: this.initError = `Worker error: ${err.message}`
errorHandler(s) == [s EXCEPT !.initError = "workererr"]

\* this.worker.on('error', (err) => { ... })
OnError(w) ==
    /\ outbox[w] # << >>
    /\ Head(outbox[w]).type = "errorEvt"
    /\ SetSvc(errorHandler(Svc))
    /\ outbox' = [outbox EXCEPT ![w] = Tail(@)]
    /\ sunk' = NoSink
    /\ UNCHANGED << readySeen, tasks, wst, active, inbox, cur, nCalls, sentTo, ret, started,
                    registered, auxVars >>

\* The fields after the 'exit' handler ran with this exit code.
exitHandler(s, code) ==
    IF code # 0 THEN [s EXCEPT !.worker = Null, !.initialized = FALSE] ELSE s

\* this.worker.on('exit', (code) => { ... })
OnExit(w) ==
    /\ outbox[w] # << >>
    /\ Head(outbox[w]).type = "exitEvt"
    /\ SetSvc(exitHandler(Svc, Head(outbox[w]).code))
    /\ outbox' = [outbox EXCEPT ![w] = Tail(@)]
    /\ sunk' = NoSink
    /\ UNCHANGED << readySeen, tasks, wst, active, inbox, cur, nCalls, sentTo, ret, started,
                    registered, auxVars >>

\* ---- the worker thread -------------------------------------------------

\* A port that puts the newest message in front of the waiting ones.
postFront(w, ms) == outbox' = [outbox EXCEPT ![w] = ms \o @]

\* parentPort.postMessage(m), for each m of ms in turn; and the Worker object's events.
post(w, ms) == outbox' = [outbox EXCEPT ![w] = @ \o ms]

\* The thread ends: nothing queued for it is received any more.
Ends(w, how) ==
    /\ wst' = [wst EXCEPT ![w] = how]
    /\ inbox' = [inbox EXCEPT ![w] = << >>]
    /\ cur' = [cur EXCEPT ![w] = NoCur]
    /\ active' = [active EXCEPT ![w] = 0]
    /\ registered' = [registered EXCEPT ![w] = 0]

\* The events of a thread ended by an uncaught exception: 'error', then 'exit' with code 1.
Uncaught == << Msg("errorEvt", NoId, Null, 0, "uncaught", 0), Msg("exitEvt", NoId, Null, 0, "null", 1) >>

\* The script's start-up fails. kind:
\*   "uncaught": a top-level require throws;
\*   "nodll":    !dllPath || !fs.existsSync(dllPath): posts the error, process.exit(1);
\*   "loadfail": koffi.load / lib.func throws: the outer catch posts the error, and the
\*               script ends with no message listener (exit code 0).
WorkerStartupFails(w, kind) ==
    /\ wst[w] = "boot"
    /\ Ends(w, "failed")
    /\ post(w, CASE kind = "uncaught" -> Uncaught
                 [] kind = "nodll" -> << Msg("error", NoId, Null, 0, "nodll", 0),
                                        Msg("exitEvt", NoId, Null, 0, "null", 1) >>
                 [] OTHER -> << Msg("error", NoId, Null, 0, "exception", 0),
                                Msg("exitEvt", NoId, Null, 0, "null", 0) >>)
    /\ UNCHANGED << svcVars, readySeen, tasks, nCalls, sentTo, ret, sunk, started, auxVars >>

\* The script's start-up succeeds: the listener is attached, 'ready' is posted.
WorkerStartup(w) ==
    /\ wst[w] = "boot"
    /\ wst' = [wst EXCEPT ![w] = "ready"]
    /\ post(w, << Msg("ready", NoId, Null, 0, "null", 0) >>)
    /\ UNCHANGED << svcVars, readySeen, tasks, active, inbox, cur, nCalls, sentTo, ret, sunk, started,
                    registered, auxVars >>

\* The thread runs one message handler at a time, to completion.
canReceive(w) == wst[w] = "ready" /\ inbox[w] # << >>

\* A port that hands the newest message over first.
lastMessage(q) == q[Len(q)]

\* The message the handler is run with.
nextMessage(q) == Head(q)

\* A catch that posts the error the way the script's outer catch does: without id.
terminalNoId(id, req, result) ==
    CASE result = "zero" -> Msg("success", id, req, 0, "null", 0)
      [] result = "nonzero" -> Msg("error", id, req, 0, "native", 0)
      [] OTHER -> Msg("error", NoId, req, 0, "exception", 0)

\* The terminal message for the handler's outcome. result: "zero" (the native call
\* returned 0), "nonzero" (another status: the text of Wcdb_GetLastErrorMsg or
\* `ErrorCode: n`), "throw" (mkdirSync, koffi.register or the native call threw),
\* "throwlate" (koffi.unregister or a later statement threw).
terminal(id, req, result) ==
    CASE result = "zero" -> Msg("success", id, req, 0, "null", 0)
      [] result = "nonzero" -> Msg("error", id, req, 0, "native", 0)
      [] OTHER -> Msg("error", id, req, 0, "exception", 0)

\* parentPort.on('message'), up to the entry of the native call. pre: whether
\* mkdirSync and koffi.register return ("ok") or one of them throws ("throw").
WorkerReceive(w, pre) ==
    /\ canReceive(w)
    /\ LET m == nextMessage(inbox[w])
       IN /\ inbox' = [inbox EXCEPT ![w] = SelectSeq(@, LAMBDA x : x # m)]
          /\ IF pre = "throw"
             THEN /\ post(w, << terminal(m.id, m.req, "throw") >>)
                  /\ UNCHANGED << wst, active, cur, started, registered >>
             ELSE /\ wst' = [wst EXCEPT ![w] = "busy"]
                  /\ active' = [active EXCEPT ![w] = @ + 1]
                  /\ cur' = [cur EXCEPT ![w] = [id |-> m.id, req |-> m.req, lastUpdate |-> 0,
                                                n |-> 0]]
                  /\ started' = [started EXCEPT ![w] = Append(@, m.req)]
                  /\ registered' = [registered EXCEPT ![w] = @ + 1]
                  /\ UNCHANGED outbox
    /\ UNCHANGED << svcVars, readySeen, tasks, nCalls, sentTo, ret, sunk, auxVars >>

\* A throttle that lets a callback through as soon as the clock has moved.
throttleAnyTick(now, lastUpdate, current, total) ==
    now - lastUpdate > 0 \/ current = total \/ current = 1

\* A throttle that lets a callback through from 100 ms on.
throttleAtLeast(now, lastUpdate, current, total) ==
    now - lastUpdate >= ThrottleMs \/ current = total \/ current = 1

\* The throttle's condition without its `current === 1` disjunct.
throttleNoFirst(now, lastUpdate, current, total) ==
    now - lastUpdate > ThrottleMs \/ current = total

\* The throttle's condition in onProgress.
throttleEmits(now, lastUpdate, current, total) ==
    now - lastUpdate > ThrottleMs \/ current = total \/ current = 1

\* The registered callback (current, total) => { ... }, run when Date.now() is `now`.
onProgress(w, current, total, now) ==
    LET emits == throttleEmits(now, cur[w].lastUpdate, current, total)
    IN /\ cur' = [cur EXCEPT ![w].n = current,
                             ![w].lastUpdate = IF emits THEN now ELSE @]
       /\ IF emits
          THEN post(w, << Msg("progress", cur[w].id, cur[w].req, current, "null", 0) >>)
          ELSE UNCHANGED outbox

\* The native call invokes the callback with the next step of Total.
WorkerCallback(w, now) ==
    /\ wst[w] = "busy"
    /\ cur[w].n < Total
    /\ onProgress(w, cur[w].n + 1, Total, now)
    /\ UNCHANGED << svcVars, readySeen, tasks, wst, active, inbox, nCalls, sentTo, ret, sunk, started,
                    registered, auxVars >>

Results == {"zero", "nonzero", "throw", "throwlate"}

\* The callbacks registered once the handler is over: koffi.unregister(onProgress)
\* is the statement after the native call, and is not run when the call throws.
afterCall(n, result) == IF result = "throw" THEN n ELSE n - 1

\* The native call returns (or throws): the handler's rest.
WorkerFinish(w, result) ==
    /\ wst[w] = "busy"
    /\ registered' = [registered EXCEPT ![w] = afterCall(@, result)]
    /\ post(w, << terminal(cur[w].id, cur[w].req, result) >>)
    /\ wst' = [wst EXCEPT ![w] = "ready"]
    /\ active' = [active EXCEPT ![w] = @ - 1]
    /\ cur' = [cur EXCEPT ![w] = NoCur]
    /\ UNCHANGED << svcVars, readySeen, tasks, inbox, nCalls, sentTo, ret, sunk, started, auxVars >>

\* A running thread is ended by an uncaught error (for instance its heap limit).
WorkerCrash(w) ==
    /\ wst[w] \in {"ready", "busy"}
    /\ Ends(w, "dead")
    /\ post(w, Uncaught)
    /\ UNCHANGED << svcVars, readySeen, tasks, nCalls, sentTo, ret, sunk, started, auxVars >>

\* ---- the system --------------------------------------------------------
\* Spec: the dispatcher as its callers drive it (decryptDatabaseAsync), with its
\* worker. WrapperSpec: the same, driven only through the public wrapper
\* (decryptDatabase).

\* Nothing has used the LRUCache or the chat store, or run a native call.
AuxIdle == cbs = << >> /\ capacity = 0 /\ cache = << >> /\ messages = << >>

\* The dispatcher with fields s and nothing submitted yet.
Started(s) ==
    /\ worker = s.worker
    /\ dllPath = s.dllPath
    /\ initialized = s.initialized
    /\ initError = s.initError
    /\ nWorkers = s.nWorkers
    /\ nInit = s.nInit
    /\ readySeen = {}
    /\ active = [w \in Workers |-> 0]
    /\ wst = [w \in Workers |-> IF w <= s.nWorkers THEN "boot" ELSE "none"]
    /\ tasks = [i \in Ids |-> NoTask]
    /\ inbox = [w \in Workers |-> << >>]
    /\ outbox = [w \in Workers |-> << >>]
    /\ cur = [w \in Workers |-> NoCur]
    /\ nCalls = 0
    /\ sentTo = [c \in Calls |-> Null]
    /\ ret = [c \in Calls |-> << >>]
    /\ sunk = NoSink
    /\ started = [w \in Workers |-> << >>]
    /\ registered = [w \in Workers |-> 0]

\* After `new NativeDecryptService()`: the constructor has run init().
Init ==
    /\ \E dll \in BOOLEAN, script \in BOOLEAN, ctor \in BOOLEAN :
          Started(init(Fields0, dll, script, ctor))
    /\ AuxIdle

Next ==
    \/ Submit
    \/ \E w \in Workers : OnMessage(w)
    \/ \E w \in Workers : OnError(w)
    \/ \E w \in Workers : OnExit(w)
    \/ \E w \in Workers, kind \in {"uncaught", "nodll", "loadfail"} : WorkerStartupFails(w, kind)
    \/ \E w \in Workers : WorkerStartup(w)
    \/ \E w \in Workers, pre \in {"ok", "throw"} : WorkerReceive(w, pre)
    \/ \E w \in Workers, now \in Times : WorkerCallback(w, now)
    \/ \E w \in Workers, result \in Results : WorkerFinish(w, result)
    \/ \E w \in Workers : WorkerCrash(w)

Spec == Init /\ [][Next]_vars

\* The application, which calls the dispatcher only through the public wrapper.
WrapperNext ==
    \/ Request
    \/ \E w \in Workers : OnMessage(w)
    \/ \E w \in Workers : OnError(w)
    \/ \E w \in Workers : OnExit(w)
    \/ \E w \in Workers, kind \in {"uncaught", "nodll", "loadfail"} : WorkerStartupFails(w, kind)
    \/ \E w \in Workers : WorkerStartup(w)
    \/ \E w \in Workers, pre \in {"ok", "throw"} : WorkerReceive(w, pre)
    \/ \E w \in Workers, now \in Times : WorkerCallback(w, now)
    \/ \E w \in Workers, result \in Results : WorkerFinish(w, result)
    \/ \E w \in Workers : WorkerCrash(w)

WrapperSpec == Init /\ [][WrapperNext]_vars

\* ---- one native call and its callbacks ---------------------------------

\* Worker 1 has entered the native call of request 1 (id "a", with a sink), and
\* nothing else is going on.
InNativeCall ==
    /\ worker = 1 /\ dllPath = "path" /\ initialized = TRUE /\ initError = "null"
    /\ nWorkers = 1 /\ nInit = 1
    /\ readySeen = {1}
    /\ wst = [w \in Workers |-> IF w = 1 THEN "busy" ELSE "none"]
    /\ active = [w \in Workers |-> IF w = 1 THEN 1 ELSE 0]
    /\ registered = [w \in Workers |-> IF w = 1 THEN 1 ELSE 0]
    /\ tasks = [i \in Ids |-> IF i = "a" THEN [call |-> 1, sink |-> TRUE] ELSE NoTask]
    /\ inbox = [w \in Workers |-> << >>]
    /\ outbox = [w \in Workers |-> << >>]
    /\ cur = [w \in Workers |->
                IF w = 1 THEN [id |-> "a", req |-> 1, lastUpdate |-> 0, n |-> 0] ELSE NoCur]
    /\ nCalls = 1
    /\ sentTo = [c \in Calls |-> IF c = 1 THEN 1 ELSE Null]
    /\ ret = [c \in Calls |-> << >>]
    /\ sunk = NoSink
    /\ started = [w \in Workers |-> IF w = 1 THEN << 1 >> ELSE << >>]

ThrottleInit == InNativeCall /\ AuxIdle

\* Wcdb_DecryptDatabaseWithProgress invokes the callback with (current, total) when
\* Date.now() is `now`: total stays what it was, current does not go back.
NativeCallback(current, total, now) ==
    /\ Len(cbs) < MaxCallbacks
    /\ current <= total
    /\ cbs # << >> => /\ total = cbs[Len(cbs)].total
                      /\ current >= cbs[Len(cbs)].current
    /\ onProgress(1, current, total, now)
    /\ cbs' = Append(cbs, [current |-> current, total |-> total, now |-> now,
                           emitted |-> Len(outbox'[1]) > Len(outbox[1])])
    /\ UNCHANGED << svcVars, readySeen, tasks, wst, active, inbox, nCalls, sentTo, ret, sunk,
                    started, registered, capacity, cache, messages >>

ThrottleNext ==
    \E current \in 1..MaxTotal, total \in 1..MaxTotal, now \in Times :
        NativeCallback(current, total, now)

ThrottleSpec == ThrottleInit /\ [][ThrottleNext]_vars

\* ---- LRUCache<K, V> ------------------------------------------------------

\* JavaScript's undefined, which a key of type K may be.
undefined == "undefined"
Keys == {"k1", "k2", "k3", undefined}
Values == {"v", "w"}

\* Map.has(key), Map.get(key), Map.delete(key), on the entries in insertion order
\* (mapGet is only used on a key the Map has).
mapHas(c, key) == \E i \in 1..Len(c) : c[i].key = key
mapGet(c, key) ==
    c[CHOOSE i \in 1..Len(c) : c[i].key = key].value
mapDelete(c, key) == SelectSeq(c, LAMBDA e : e.key # key)

\* this.cache.keys().next().value: undefined when the Map is empty.
firstKey(c) == IF c = << >> THEN undefined ELSE c[1].key

\* new LRUCache(capacity)
LruInit ==
    /\ Started(init(Fields0, FALSE, FALSE, FALSE))
    /\ cbs = << >>
    /\ messages = << >>
    /\ capacity \in 0..MaxCapacity
    /\ cache = << >>

lruFrame == UNCHANGED << svcVars, readySeen, tasks, wst, active, inbox, outbox, cur, nCalls,
                         sentTo, ret, sunk, started, registered, cbs, capacity, messages >>

\* get(key): an entry that is there is moved to the end.
get(key) ==
    /\ cache' = IF mapHas(cache, key)
                THEN Append(mapDelete(cache, key), [key |-> key, value |-> mapGet(cache, key)])
                ELSE cache
    /\ lruFrame

\* set(key, value)
set(key, value) ==
    /\ LET kept == IF mapHas(cache, key) THEN mapDelete(cache, key)
                   ELSE IF Len(cache) >= capacity
                        THEN IF firstKey(cache) # undefined
                             THEN mapDelete(cache, firstKey(cache))
                             ELSE cache
                        ELSE cache
       IN cache' = Append(kept, [key |-> key, value |-> value])
    /\ lruFrame

\* has(key): reads only.
has(key) == mapHas(cache, key) \in BOOLEAN /\ UNCHANGED vars

\* clear()
clear == cache' = << >> /\ lruFrame

\* get size()
size == Len(cache)

LruNext ==
    \/ \E key \in Keys : get(key)
    \/ \E key \in Keys, value \in Values : set(key, value)
    \/ \E key \in Keys : has(key)
    \/ clear

LruSpec == LruInit /\ [][LruNext]_vars

\* ---- useChatStore: the messages -----------------------------------------

\* The Messages of the model: four keys (createTime and sortSeq are the same for
\* all), each with two contents.
ServerIds == {1, 12}
LocalIds == {3, 23}
Contents == {"x", "y"}
Message == [serverId : ServerIds, localId : LocalIds, createTime : {5}, sortSeq : {7},
            parsedContent : Contents]

\* All lists of Messages of length n at most.
Lists(n) == UNION {[1..k -> Message] : k \in 0..n}

\* `${n}` for a number below 100: its decimal digits, as a list of characters.
digit(d) == << "0", "1", "2", "3", "4", "5", "6", "7", "8", "9" >>[d + 1]
template(n) == IF n < 10 THEN << digit(n) >> ELSE << digit(n \div 10), digit(n % 10) >>

\* `${m.serverId}-${m.localId}-${m.createTime}-${m.sortSeq}`
keyOf(m) ==
    template(m.serverId) \o << "-" >> \o template(m.localId) \o << "-" >>
        \o template(m.createTime) \o << "-" >> \o template(m.sortSeq)

\* new Set(state.messages.map(...))
existingKeys(msgs) == {keyOf(msgs[i]) : i \in 1..Len(msgs)}

\* newMessages.filter(msg => !existingKeys.has(...))
uniqueNewMessages(msgs, newMessages) ==
    SelectSeq(newMessages, LAMBDA msg : keyOf(msg) \notin existingKeys(msgs))

\* The state.messages that appendMessages(newMessages, prepend) leaves.
appended(msgs, newMessages, prepend) ==
    LET fresh == uniqueNewMessages(msgs, newMessages)
    IN IF Len(fresh) = 0 THEN msgs
       ELSE IF prepend THEN fresh \o msgs ELSE msgs \o fresh

\* create<ChatState>(...): messages: []
StoreInit ==
    /\ Started(init(Fields0, FALSE, FALSE, FALSE))
    /\ cbs = << >> /\ capacity = 0 /\ cache = << >>
    /\ messages = << >>

storeFrame == UNCHANGED << svcVars, readySeen, tasks, wst, active, inbox, outbox, cur, nCalls,
                           sentTo, ret, sunk, started, registered, cbs, capacity, cache >>

\* appendMessages(newMessages, prepend)
appendMessages(newMessages, prepend) ==
    /\ Len(messages) + Len(newMessages) <= MaxMessages
    /\ messages' = appended(messages, newMessages, prepend)
    /\ storeFrame

\* setMessages(list)
setMessages(list) == messages' = list /\ storeFrame

\* setCurrentSession(sessionId): messages: []
setCurrentSession == messages' = << >> /\ storeFrame

\* reset(): messages: []
reset == messages' = << >> /\ storeFrame

StoreNext ==
    \/ \E newMessages \in Lists(MaxNew), prepend \in BOOLEAN : appendMessages(newMessages, prepend)
    \/ \E list \in Lists(MaxMessages) : setMessages(list)
    \/ setCurrentSession
    \/ reset

StoreSpec == StoreInit /\ [][StoreNext]_vars

\* ---- the claims --------------------------------------------------------

\* A step that is a decryptDatabaseAsync call, and the call it makes.
IsSubmit == nCalls' = nCalls + 1
NewCall == nCalls + 1

\* The value a call gets at once when no worker can be had.
InitErrors == {"nodll", "noscript", "ctor"}
Immediate(e) == [success |-> FALSE, error |-> e, of |-> Null]

\* C1 (as stated): isAvailable() is true only once the 'ready' message of the
\* dispatcher's current worker has been handled.
C1_AvailableOnlyAfterReady == isAvailable => worker \in readySeen

\* C2 (as stated): a decryptDatabaseAsync call never stores its task under an id
\* that is in the pending table: the entry it writes was absent before.
C2_FreshId ==
    [][\A id \in Ids : (IsSubmit /\ tasks'[id] # tasks[id]) => tasks[id] = NoTask]_vars

\* C3 (as stated): a promise is only resolved with the outcome of its own request
\* (or with the error of its own failed start), and a progress sink only gets its
\* own request's progress.
C3_NoLeak ==
    /\ \A c \in Calls : \A i \in 1..Len(ret[c]) : ret[c][i].of \in {Null, c}
    /\ sunk # NoSink => sunk.of = sunk.call

\* The first worker started, never ended, and nothing is queued, running or in
\* flight: every message that will ever be delivered has been.
Quiet ==
    /\ nWorkers = 1 /\ worker = 1
    /\ wst[1] = "ready" /\ inbox[1] = << >> /\ outbox[1] = << >>

\* C4 (as stated, in the form a finite run decides): with a worker that started
\* and did not exit, once every message has been delivered every accepted call
\* has been resolved.
C4_AllResolved == Quiet => \A c \in Calls : sentTo[c] # Null => ret[c] # << >>

\* The step handles a terminal message for a pending id (of worker w).
HandlesTerminal(w) ==
    /\ outbox[w] # << >>
    /\ outbox'[w] = Tail(outbox[w])
    /\ Head(outbox[w]).type \in {"success", "error"}
    /\ Head(outbox[w]).id # NoId
    /\ tasks[Head(outbox[w]).id] # NoTask

\* C5: no promise is resolved twice; the table holds no entry of a resolved call;
\* and handling a terminal message for a pending id resolves that entry's call and
\* removes the entry.
C5_ResolveOnceAndRemove ==
    /\ [](\A c \in Calls : Len(ret[c]) <= 1)
    /\ [](\A id \in Ids : tasks[id] # NoTask => ret[tasks[id].call] = << >>)
    /\ [][\A w \in Workers : HandlesTerminal(w) =>
            LET id == Head(outbox[w]).id
            IN /\ tasks'[id] = NoTask
               /\ Len(ret'[tasks[id].call]) = Len(ret[tasks[id].call]) + 1]_vars

\* C5 witness: a call resolved by a worker's message, its entry gone.
C5_Witness ==
    \E c \in Calls : /\ Len(ret[c]) = 1 /\ ret[c][1].of # Null
                      /\ \A id \in Ids : tasks[id].call # c

\* The dispatcher has handled an abnormal exit and no call was made since.
Crashed ==
    /\ worker = Null /\ ~initialized /\ nWorkers >= 1
    /\ initError \in {"null", "workererr"}

\* C6 (as stated): an abnormal exit leaves no worker handle and isAvailable()
\* false, and the next call runs init() again and posts its request to the worker
\* that init() constructs.
C6_RestartAfterCrash ==
    /\ [](Crashed => ~isAvailable)
    /\ [][(Crashed /\ IsSubmit) =>
            /\ nInit' = nInit + 1
            /\ nWorkers' > nWorkers => sentTo'[NewCall] = nWorkers']_vars

\* The latest call returned an initialization error.
ReturnedInitError ==
    /\ nCalls >= 1
    /\ Len(ret[nCalls]) = 1
    /\ ret[nCalls][1].of = Null
    /\ ret[nCalls][1].error \in InitErrors

\* C7 (as stated): after a call returned an initialization error, the next call
\* runs init()'s path lookup again.
C7_InitRetried == [][(ReturnedInitError /\ IsSubmit) => nInit' = nInit + 1]_vars

\* C7 (amended): after a call returned an initialization error, the next call does
\* not attempt initialization: it runs no path lookup, constructs no worker, and
\* returns the same stored error.
C7_InitNotRetried ==
    [][(ReturnedInitError /\ IsSubmit) =>
          /\ nInit' = nInit
          /\ nWorkers' = nWorkers /\ worker' = Null
          /\ ret'[NewCall] = ret[nCalls]]_vars

\* C7 witness: a second call got the stored initialization error of the first.
C7_Witness ==
    /\ nCalls >= 2
    /\ ret[1] # << >> /\ ret[1][1].error \in InitErrors
    /\ ret[2] = ret[1]
    /\ nInit = 1

\* C8: a call that ends with no worker handle resolves at once with
\* {success: false, error: the stored initialization error}, leaves the pending
\* table as it was, posts nothing, and isAvailable() is false.
C8_InitFailure ==
    [][(IsSubmit /\ worker' = Null) =>
          /\ initError' # "null"
          /\ ret'[NewCall] = << Immediate(initError') >>
          /\ tasks' = tasks
          /\ inbox' = inbox
          /\ sentTo'[NewCall] = Null
          /\ ~isAvailable']_vars

\* C8 witness: a call whose own init() attempt failed got the immediate error.
C8_Witness ==
    /\ nCalls >= 1 /\ nInit = 2 /\ nWorkers = 1
    /\ worker = Null
    /\ ret[nCalls] # << >> /\ ret[nCalls][1].error \in InitErrors
    /\ sentTo[nCalls] = Null

\* C9 (as stated): once a worker that failed at start-up has ended and its
\* messages and events are all handled, no call posted to it is unresolved.
C9_FailedStartResolves ==
    \A w \in Workers :
        (wst[w] = "failed" /\ outbox[w] = << >>) =>
            \A c \in Calls : sentTo[c] = w => ret[c] # << >>

\* started[w] is in the order the requests were posted.
Increasing(q) == \A i \in 1..Len(q) : \A j \in 1..Len(q) : i < j => q[i] < q[j]

\* C10: each worker starts the native calls in the order the requests were posted
\* to it, a native call starts only when none is in progress, and at most one is
\* in progress at any time.
C10_SerialFifo ==
    \A w \in Workers :
        /\ Increasing(started[w])
        /\ active[w] <= 1
        /\ active[w] = (IF wst[w] = "busy" THEN 1 ELSE 0)
        /\ wst[w] = "busy" => cur[w].req = started[w][Len(started[w])]

\* C10 witness: a worker's second native call is in progress and the first call is
\* not resolved yet: the second request was posted without waiting for the first.
C10_Witness ==
    \E w \in Workers : /\ started[w] = << 1, 2 >> /\ wst[w] = "busy"
                        /\ sentTo[1] = w /\ sentTo[2] = w
                        /\ ret[1] = << >>

IsTerminal(m) == m.type \in {"success", "error"} /\ m.req # Null

\* The step handles a progress message (of worker w) whose id is not in the table.
HandlesStrayProgress(w) ==
    /\ outbox[w] # << >>
    /\ outbox'[w] = Tail(outbox[w])
    /\ Head(outbox[w]).type = "progress"
    /\ tasks[Head(outbox[w]).id] = NoTask

Emitted == SelectSeq(cbs, LAMBDA e : e.emitted)
PostedProgress ==
    [i \in 1..Len(Emitted) |-> Msg("progress", "a", 1, Emitted[i].current, "null", 0)]

\* C12: every callback with current = 1 and every callback with current = total
\* posted a 'progress' message, whatever Date.now() gave; the messages posted are
\* those of the callbacks recorded as posting, in order.
C12_EndPointsEmitted ==
    /\ \A i \in 1..Len(cbs) : cbs[i].current \in {1, cbs[i].total} => cbs[i].emitted
    /\ cbs # << >> => outbox[1] = PostedProgress

\* C12 witness: a callback with current = 1 and a later one with current = total
\* (total above 1) each posted a message at the very time of the posting before it.
C12_Witness ==
    \E i \in 2..Len(cbs), j \in 2..Len(cbs) :
        /\ i < j /\ cbs[j].total > 1
        /\ cbs[i].current = 1 /\ cbs[i].emitted
        /\ cbs[i - 1].emitted /\ cbs[i].now = cbs[i - 1].now
        /\ cbs[j].current = cbs[j].total /\ cbs[j].emitted
        /\ cbs[j - 1].emitted /\ cbs[j].now = cbs[j - 1].now

\* C13 (as stated): two consecutive posted progress messages that are both
\* non-terminal (current # total) were posted at least 100 ms apart.
C13_NonTerminalSpacing ==
    \A i \in 1..(Len(Emitted) - 1) :
        (Emitted[i].current # Emitted[i].total /\ Emitted[i + 1].current # Emitted[i + 1].total)
            => Emitted[i + 1].now - Emitted[i].now >= ThrottleMs

\* C13 (amended): two consecutive posted progress messages that are both
\* non-terminal, the later of which is not a first-step message (current # 1), were
\* posted at least 100 ms apart.
C13_SpacingAfterFirstStep ==
    \A i \in 1..(Len(Emitted) - 1) :
        (/\ Emitted[i].current # Emitted[i].total
         /\ Emitted[i + 1].current # Emitted[i + 1].total
         /\ Emitted[i + 1].current # 1)
            => Emitted[i + 1].now - Emitted[i].now >= ThrottleMs

\* C13 witness: a callback posted, the next one was held back, and the one after,
\* neither first-step nor terminal, posted.
C13_Witness ==
    \E i \in 1..(Len(cbs) - 2) :
        /\ cbs[i].emitted /\ cbs[i].current # cbs[i].total
        /\ ~cbs[i + 1].emitted
        /\ cbs[i + 2].emitted /\ cbs[i + 2].current \notin {1, cbs[i + 2].total}

\* What lastUpdate holds when callback i runs: Date.now() of the latest callback
\* before it that posted, 0 when none did.
LastEmit(i) ==
    LET before == {j \in 1..(i - 1) : cbs[j].emitted}
    IN IF before = {} THEN 0
       ELSE cbs[CHOOSE j \in before : \A k \in before : k <= j].now

\* Callback i is neither a first-step nor a terminal one.
Middle(i) == cbs[i].current \notin {1, cbs[i].total}

\* C15 (as stated): a callback that is neither first-step nor terminal posts a
\* message exactly when at least 100 ms have passed since the last posting, and
\* lastUpdate is the time of the latest posting.
C15_EmitsFromHundred ==
    /\ \A i \in 1..Len(cbs) :
          Middle(i) => (cbs[i].emitted <=> cbs[i].now - LastEmit(i) >= ThrottleMs)
    /\ cbs # << >> => cur[1].lastUpdate = LastEmit(Len(cbs) + 1)

\* C15 (amended): a callback that is neither first-step nor terminal posts a
\* message exactly when more than 100 ms have passed since the last posting (at
\* exactly 100 ms it is held back), and lastUpdate is the time of the latest
\* posting: set by every callback that posts, left alone by every one held back.
C15_EmitsAfterHundred ==
    /\ \A i \in 1..Len(cbs) :
          Middle(i) => (cbs[i].emitted <=> cbs[i].now - LastEmit(i) > ThrottleMs)
    /\ cbs # << >> => cur[1].lastUpdate = LastEmit(Len(cbs) + 1)

\* C15 witness: after a posting, a middle callback exactly 100 ms later was held
\* back and lastUpdate kept the posting's time; the next middle callback, 101 ms
\* after the posting, posted.
C15_Witness ==
    \E i \in 1..(Len(cbs) - 2) :
        /\ cbs[i].emitted
        /\ Middle(i + 1) /\ cbs[i + 1].now = cbs[i].now + ThrottleMs /\ ~cbs[i + 1].emitted
        /\ Middle(i + 2) /\ cbs[i + 2].now = cbs[i].now + ThrottleMs + 1 /\ cbs[i + 2].emitted
        /\ cur[1].lastUpdate = cbs[i + 2].now

\* C14 (as stated): a worker that is not inside a native call holds no registered
\* callback: every way the handling of a request ends has deregistered it.
C14_NoRegistrationLeft ==
    \A w \in Workers : wst[w] # "busy" => registered[w] = 0

\* The step is worker w's message handler catching an exception: it posts an
\* 'error' message carrying the stringified exception.
CatchesException(w) ==
    /\ wst[w] \in {"ready", "busy"}
    /\ Len(outbox'[w]) > Len(outbox[w])
    /\ \E i \in (Len(outbox[w]) + 1)..Len(outbox'[w]) :
          outbox'[w][i].type = "error" /\ outbox'[w][i].err = "exception"

\* The request worker w is handling, or takes up in this step.
Handled(w) ==
    IF wst[w] = "busy" THEN [id |-> cur[w].id, req |-> cur[w].req]
    ELSE [id |-> Head(inbox[w]).id, req |-> Head(inbox[w]).req]

\* C16: when the handling of a request catches an exception, the worker posts one
\* message and no more: 'error' with that request's id; it drops nothing that is
\* queued behind the request; and its thread is alive and ready for the next one.
C16_ExceptionIsOneError ==
    [][\A w \in Workers : CatchesException(w) =>
          /\ outbox'[w] = Append(outbox[w],
                                 Msg("error", Handled(w).id, Handled(w).req, 0, "exception", 0))
          /\ inbox'[w] = (IF wst[w] = "busy" THEN inbox[w] ELSE Tail(inbox[w]))
          /\ wst'[w] = "ready"]_vars

\* C16 witness: the first request ended in a caught exception and its call got the
\* error; the second request, on the same worker, ran and its call got success.
C16_Witness ==
    /\ nCalls >= 2 /\ sentTo[1] # Null /\ sentTo[2] = sentTo[1]
    /\ ret[1] = << [success |-> FALSE, error |-> "exception", of |-> 1] >>
    /\ ret[2] = << [success |-> TRUE, error |-> "null", of |-> 2] >>

\* The worker's thread runs.
Alive(w) == wst[w] \in {"boot", "ready", "busy"}

\* The worker's thread has ended and the dispatcher has handled its 'exit' event.
HasExited(w) ==
    /\ ended(w)
    /\ \A i \in 1..Len(outbox[w]) : outbox[w][i].type # "exitEvt"

\* C17: at most one worker thread is alive, and it is the one the dispatcher holds
\* the handle of; a Worker is constructed only when the dispatcher holds no handle
\* and every worker constructed before has exited.
C17_OneWorkerAlive ==
    /\ [](Cardinality({w \in Workers : Alive(w)}) <= 1)
    /\ [](\A w \in Workers : Alive(w) => worker = w)
    /\ [][nWorkers' > nWorkers =>
            /\ worker = Null
            /\ nWorkers' = nWorkers + 1
            /\ \A w \in 1..nWorkers : HasExited(w)]_vars

\* C17 witness: the second worker runs, constructed by a call after the first had
\* exited.
C17_Witness ==
    /\ nWorkers = 2 /\ worker = 2 /\ Alive(2)
    /\ HasExited(1) /\ sentTo[nCalls] = 2

\* The step is the 'exit' handler of worker w, run with a non-zero code.
HandlesCrash(w) ==
    /\ outbox[w] # << >>
    /\ outbox'[w] = Tail(outbox[w])
    /\ Head(outbox[w]).type = "exitEvt"
    /\ Head(outbox[w]).code # 0

\* The entry of id is of a call whose request went to a worker that has exited
\* and whose handle the dispatcher has dropped.
Orphaned(id) ==
    /\ tasks[id] # NoTask
    /\ HasExited(sentTo[tasks[id].call])
    /\ worker # sentTo[tasks[id].call]

\* C18 (as stated): the 'exit' handler run with a non-zero code drops the handle,
\* clears initialized, and leaves the pending table and every promise as they were;
\* and the entries of the tasks that were pending at the exited worker stay in the
\* table as they are, their promises unresolved, in every later step.
C18_CrashLeavesTasks ==
    /\ [][\A w \in Workers : HandlesCrash(w) =>
            /\ worker' = Null /\ ~initialized'
            /\ tasks' = tasks /\ ret' = ret]_vars
    /\ [][\A id \in Ids : Orphaned(id) =>
            /\ tasks'[id] = tasks[id]
            /\ ret'[tasks[id].call] = << >>]_vars

\* C19: a decryptDatabase call made while isAvailable() is false returns
\* { success: false, error } at once and does nothing else: no init(), no Worker,
\* no entry in the pending table, no message to a worker; and as long as calls come
\* only through decryptDatabase, a dispatcher that is Crashed stays Crashed.
C19_WrapperNeverRestarts ==
    /\ [][(IsSubmit /\ ~isAvailable) =>
            /\ ret'[NewCall] = << Immediate("unavailable") >>
            /\ svcVars' = svcVars
            /\ tasks' = tasks /\ sentTo' = sentTo
            /\ inbox' = inbox /\ wst' = wst]_vars
    /\ [][Crashed => Crashed']_vars

\* C19 witness: the worker exited with a non-zero code and no 'error' event (so a
\* decryptDatabaseAsync call would start a new one), and a decryptDatabase call made
\* after that returned the wrapper's error; no second worker exists.
C19_Witness ==
    /\ Crashed /\ initError = "null" /\ nWorkers = 1
    /\ nCalls >= 1 /\ ret[nCalls] = << Immediate("unavailable") >>
    /\ HasExited(1)

\* C20 (as stated): the cache never holds more entries than its capacity.
C20_SizeWithinCapacity == size <= capacity

\* No two messages of the list have the same (serverId, localId, createTime,
\* sortSeq).
KeyTuple(m) == << m.serverId, m.localId, m.createTime, m.sortSeq >>
NoTwoSameKey(msgs) ==
    \A i \in 1..Len(msgs) : \A j \in 1..Len(msgs) :
        KeyTuple(msgs[i]) = KeyTuple(msgs[j]) => i = j

\* C21 (as stated): from a messages list with no two messages of the same key, an
\* appendMessages call with any newMessages and either prepend leaves a list with
\* no two messages of the same key, in which the messages of before are all
\* present in the order they had; and when each new message's key is one of the
\* list's, the list is left as it was.
C21_AppendDeduplicates ==
    [][\A newMessages \in Lists(MaxNew), prepend \in BOOLEAN :
          (NoTwoSameKey(messages) /\ messages' = appended(messages, newMessages, prepend)) =>
              /\ NoTwoSameKey(messages')
              /\ \/ SubSeq(messages', 1, Len(messages)) = messages
                 \/ SubSeq(messages', Len(messages') - Len(messages) + 1, Len(messages'))
                        = messages
              /\ (\A i \in 1..Len(newMessages) :
                     \E j \in 1..Len(messages) :
                         KeyTuple(newMessages[i]) = KeyTuple(messages[j]))
                    => messages' = messages]_vars
====
